---- MODULE Spec2Model ----
(***************************************************************************)
(* A model of the analysis scripts of pilulasdequant:                      *)
(*                                                                         *)
(*   egarch_ibov.py      find_best_model, main and monte_carlo_simulation  *)
(*   test_seasonality.py rolling_seasonal_strength and the use             *)
(*                       plot_all_seasonal_strengths makes of its result   *)
(*                                                                         *)
(* Numbers.  float64 values are records [k, v].  k = "fin" is the finite   *)
(* number v; "ninf", "pinf" and "nan" are IEEE -inf, +inf and NaN.  The    *)
(* model's finite inputs are integers counted in units of sqrt(2/pi), so   *)
(* that the linear log-variance recursion is computed exactly.  exp and    *)
(* sqrt have no integer values: e^v is kept as the exact term              *)
(* [k |-> "exp", v] and e^(v/2) as [k |-> "sqrtexp", v]; a simulated       *)
(* return mu - 0.5*e^e + e^(e/2)*z is the exact term                       *)
(* [k |-> "ret", mu, e, z].  The IEEE special cases (exp(-inf) = 0,        *)
(* inf - inf = NaN, 0 * inf = NaN, ...) are evaluated.                     *)
(***************************************************************************)
EXTENDS Integers, Sequences, FiniteSets, TLC

\* ------------------------------------------------------------- bounds
MaxSims == 2        \* n_simulations ranges over 1..MaxSims
MaxPeriod == 2      \* forecast_period ranges over 1..MaxPeriod
MaxLen == 7         \* len(series) ranges over 0..MaxLen
MaxWindow == 3      \* window_size ranges over 1..MaxWindow
MaxStep == 2        \* step ranges over 1..MaxStep

\* ------------------------------------------------- program constants
MinOrder == 1       \* range(1, 3): first order tried
MaxOrder == 2       \* range(1, 3): last order tried
SqrtTwoOverPi == 1  \* np.sqrt(2/np.pi), the unit of the model's numbers

\* ---------------------------------------------------- float64 values
Fin(n) == [k |-> "fin", v |-> n]
NInf == [k |-> "ninf", v |-> 0]
PInf == [k |-> "pinf", v |-> 0]
NaN == [k |-> "nan", v |-> 0]
None == <<>>

Sign(x) ==
    CASE x.k = "ninf" -> -1
      [] x.k = "pinf" -> 1
      [] x.k = "fin" -> (IF x.v > 0 THEN 1 ELSE IF x.v < 0 THEN -1 ELSE 0)
      [] OTHER -> 1

\* a + b
FAdd(a, b) ==
    IF a.k = "nan" \/ b.k = "nan" THEN NaN
    ELSE IF a.k = "fin" /\ b.k = "fin" THEN Fin(a.v + b.v)
    ELSE IF a.k = "fin" THEN b
    ELSE IF b.k = "fin" THEN a
    ELSE IF a.k = b.k THEN a
    ELSE NaN

\* -a
FNeg(a) ==
    CASE a.k = "fin" -> Fin(0 - a.v)
      [] a.k = "ninf" -> PInf
      [] a.k = "pinf" -> NInf
      [] OTHER -> NaN

\* a - b
FSub(a, b) == FAdd(a, FNeg(b))

\* a * b
FMul(a, b) ==
    IF a.k = "nan" \/ b.k = "nan" THEN NaN
    ELSE IF a.k = "fin" /\ b.k = "fin" THEN Fin(a.v * b.v)
    ELSE IF Sign(a) = 0 \/ Sign(b) = 0 THEN NaN
    ELSE IF Sign(a) = Sign(b) THEN PInf
    ELSE NInf

\* abs(a)
FAbs(a) ==
    CASE a.k = "fin" -> Fin(IF a.v < 0 THEN 0 - a.v ELSE a.v)
      [] a.k = "nan" -> NaN
      [] OTHER -> PInf

\* a < b   (False whenever either side is NaN)
FLess(a, b) ==
    /\ a.k # "nan"
    /\ b.k # "nan"
    /\ \/ a.k = "ninf" /\ b.k # "ninf"
       \/ a.k = "fin" /\ b.k = "fin" /\ a.v < b.v
       \/ a.k = "fin" /\ b.k = "pinf"

\* x**2 of a conditional volatility: 0 or e^(v/2)
Square(x) ==
    CASE x.k = "sqrtexp" -> [k |-> "exp", v |-> x.v]
      [] x.k = "fin" -> Fin(x.v * x.v)
      [] x.k = "nan" -> NaN
      [] OTHER -> PInf

\* np.log(y): log(0) = -inf (the RuntimeWarning is filtered, line 10)
Log(y) ==
    CASE y.k = "exp" -> Fin(y.v)
      [] y.k = "fin" /\ y.v = 0 -> NInf
      [] y.k = "pinf" -> PInf
      [] OTHER -> NaN

\* np.exp(x)
Exp(x) ==
    CASE x.k = "fin" -> [k |-> "exp", v |-> x.v]
      [] x.k = "ninf" -> Fin(0)
      [] x.k = "pinf" -> PInf
      [] OTHER -> NaN

\* np.sqrt(y) of a non-negative y
Sqrt(y) ==
    CASE y.k = "exp" -> [k |-> "sqrtexp", v |-> y.v]
      [] y.k = "fin" /\ y.v = 0 -> Fin(0)
      [] y.k = "pinf" -> PInf
      [] OTHER -> NaN

\* ------------------------------------------------------------- state
VARIABLES
    pc,                 \* position in egarch_ibov.py (or "off")
    p, q,               \* find_best_model: the loop variables
    best_aic,           \* find_best_model: best_aic
    best_order,         \* find_best_model / main: best_order
    tried,              \* history: the fits attempted, in order
    fit_order,          \* main: (p, q) unpacked from best_order
    model_fit,          \* main: the fitted model (params, last volatility)
    n_simulations,      \* monte_carlo_simulation: argument
    forecast_period,    \* monte_carlo_simulation: argument
    simulated_returns,  \* monte_carlo_simulation: the result matrix
    path_order,         \* the order in which the outer loop visits the paths
    done_paths,         \* number of paths the outer loop has completed
    sim, t,             \* the loop variables
    log_sigma2,         \* monte_carlo_simulation: log_sigma2
    tape, pos,          \* np.random: the seeded stream and the position in it
    invocation,         \* 1 or 2: which call of monte_carlo_simulation
    first_result,       \* history: the matrix the first call returned
    writes,             \* history: number of stores into each cell
    drawn_by,           \* history: the (sim, t) that consumed each draw
    ls_written,         \* history: the log_sigma2 each step of a path wrote
    rpc,                \* position in test_seasonality.py (or "off")
    series_len,         \* len(series)
    window_size, step,  \* rolling_seasonal_strength: arguments
    start,              \* rolling_seasonal_strength: the loop variable
    results             \* rolling_seasonal_strength: results

egarchVars == <<pc, p, q, best_aic, best_order, tried, fit_order, model_fit,
                n_simulations, forecast_period, simulated_returns, path_order,
                done_paths, sim, t, log_sigma2, tape, pos, invocation,
                first_result, writes, drawn_by, ls_written>>
rollVars == <<rpc, series_len, window_size, step, start, results>>
vars == <<egarchVars, rollVars>>

\* ------------------------------------------------------------ inputs
\* What a fit of arch_model(returns, p, q, vol='EGARCH') can deliver: it
\* raises, or it has an AIC (finite, +inf or NaN).
Aics == {Fin(1), Fin(2), PInf, NaN}
FitOutcomes ==
    {[ok |-> FALSE, aic |-> NaN]} \cup {[ok |-> TRUE, aic |-> a] : a \in Aics}

\* The fitted values: mu, omega, alpha[1..p], beta[1..q] and the last
\* conditional volatility (0, or e^(1/2)).
Mus == {0, 1}
Omegas == {-1}
AlphaVals == {1, 2}
BetaVals == {-1, 1}
LastVols == {Fin(0), [k |-> "sqrtexp", v |-> 1]}
FitResults(pp, qq) ==
    [mu : Mus, omega : Omegas, alpha : [1..pp -> AlphaVals],
     beta : [1..qq -> BetaVals], last_vol : LastVols]

\* The values np.random.standard_normal() delivers.
Draws == {-1, 2}

\* ------------------------------------------------- find_best_model
\* (results.aic <= best_aic: a later order replaces an equal earlier one)
Improves_orEqual(aic, best) == FLess(aic, best) \/ (aic.k = "fin" /\ aic = best)

\* results.aic < best_aic
Improves(aic, best) == FLess(aic, best)

\* One iteration of the inner loop: the try block, then the next (p, q) or
\* the return of best_order.
TryOrder ==
    /\ pc = "find"
    /\ \E out \in FitOutcomes :
         /\ tried' = Append(tried, [p |-> p, q |-> q, ok |-> out.ok, aic |-> out.aic])
         /\ IF out.ok /\ Improves(out.aic, best_aic)
              THEN best_aic' = out.aic /\ best_order' = <<p, q>>
              ELSE UNCHANGED <<best_aic, best_order>>
    /\ IF q < MaxOrder
         THEN q' = q + 1 /\ UNCHANGED <<p, pc>>
         ELSE IF p < MaxOrder
                THEN p' = p + 1 /\ q' = MinOrder /\ UNCHANGED pc
                ELSE pc' = "unpack" /\ UNCHANGED <<p, q>>
    /\ UNCHANGED <<fit_order, model_fit, n_simulations, forecast_period,
                   simulated_returns, path_order, done_paths, sim, t,
                   log_sigma2, tape, pos, invocation, first_result, writes,
                   drawn_by, ls_written, rollVars>>

\* ------------------------------------------------------------- main
\* p, q = best_order; the frame of find_best_model is gone.
Unpack ==
    /\ pc = "unpack"
    /\ IF best_order = None
         THEN pc' = "TypeError" /\ UNCHANGED fit_order
         ELSE pc' = "fit" /\ fit_order' = best_order
    /\ p' = MinOrder /\ q' = MinOrder /\ best_aic' = PInf /\ tried' = <<>>
    /\ UNCHANGED <<best_order, model_fit, n_simulations, forecast_period,
                   simulated_returns, path_order, done_paths, sim, t,
                   log_sigma2, tape, pos, invocation, first_result, writes,
                   drawn_by, ls_written, rollVars>>

\* model = arch_model(returns, p=p, q=q, ...); model_fit = model.fit(...)
Fit ==
    /\ pc = "fit"
    /\ \E mf \in FitResults(fit_order[1], fit_order[2]) : model_fit' = mf
    /\ pc' = "call"
    /\ UNCHANGED <<p, q, best_aic, best_order, tried, fit_order,
                   n_simulations, forecast_period, simulated_returns,
                   path_order, done_paths, sim, t, log_sigma2, tape, pos,
                   invocation, first_result, writes, drawn_by, ls_written,
                   rollVars>>

\* -------------------------------------------- monte_carlo_simulation
\* params['alpha[i]'], params['beta[j]'] exist
HasKeys(mf) == 2 \in DOMAIN mf.alpha /\ 2 \in DOMAIN mf.beta

mu == model_fit.mu
omega == model_fit.omega
alpha1 == model_fit.alpha[1]
alpha2 == model_fit.alpha[2]
beta1 == model_fit.beta[1]
beta2 == model_fit.beta[2]
last_vol == model_fit.last_vol

\* range(n_simulations)
Identity(N) == [j \in 1..N |-> j - 1]
Perms(N) == {o \in [1..N -> 0..(N - 1)] : \A a, b \in 1..N : a # b => o[a] # o[b]}

\* The function up to its outer loop: the parameter lookups, np.zeros.
Enter(N, T, ord) ==
    IF ~HasKeys(model_fit)
      THEN /\ pc' = "KeyError"
           /\ UNCHANGED <<n_simulations, forecast_period, simulated_returns,
                          path_order, done_paths, writes, drawn_by, ls_written>>
      ELSE /\ pc' = "path"
           /\ n_simulations' = N
           /\ forecast_period' = T
           /\ simulated_returns' = [s \in 0..(N - 1) |-> [u \in 0..(T - 1) |-> Fin(0)]]
           /\ path_order' = ord
           /\ done_paths' = 0
           /\ writes' = [s \in 0..(N - 1) |-> [u \in 0..(T - 1) |-> 0]]
           /\ drawn_by' = <<>>
           /\ ls_written' = [s \in 0..(N - 1) |-> <<>>]

\* simulated_returns = monte_carlo_simulation(model_fit)
Call ==
    /\ pc = "call"
    /\ \E N \in 1..MaxSims, T \in 1..MaxPeriod : Enter(N, T, Identity(N))
    /\ invocation' = 1
    /\ UNCHANGED <<p, q, best_aic, best_order, tried, fit_order, model_fit,
                   sim, t, log_sigma2, tape, pos, first_result, rollVars>>

\* (log_sigma2 is not initialised per path: the previous path's value stays)
BeginPath_carried ==
    /\ pc = "path"
    /\ done_paths < n_simulations
    /\ sim' = path_order[done_paths + 1]
    /\ t' = 0
    /\ pc' = "step"
    /\ UNCHANGED <<p, q, best_aic, best_order, tried, fit_order, model_fit,
                   n_simulations, forecast_period, simulated_returns,
                   path_order, done_paths, log_sigma2, tape, pos, invocation,
                   first_result, writes, drawn_by, ls_written, rollVars>>

\* for sim in range(n_simulations): log_sigma2 = np.log(last_vol**2)
BeginPath ==
    /\ pc = "path"
    /\ done_paths < n_simulations
    /\ sim' = path_order[done_paths + 1]
    /\ log_sigma2' = Log(Square(last_vol))
    /\ t' = 0
    /\ pc' = "step"
    /\ UNCHANGED <<p, q, best_aic, best_order, tried, fit_order, model_fit,
                   n_simulations, forecast_period, simulated_returns,
                   path_order, done_paths, tape, pos, invocation,
                   first_result, writes, drawn_by, ls_written, rollVars>>

\* (the second GARCH coefficient is left out of the persistence term)
UpdateLogSigma2_beta1(ls, z) ==
    LET shock == FSub(FAbs(Fin(z)), Fin(SqrtTwoOverPi))
    IN  FAdd(FAdd(FAdd(Fin(omega), FMul(Fin(alpha1), shock)),
                  FMul(Fin(alpha2), shock)),
             FMul(Fin(beta1), ls))

\* (a non-finite log-variance is replaced by the initial one)
UpdateLogSigma2_recovered(ls, z) ==
    LET shock == FSub(FAbs(Fin(z)), Fin(SqrtTwoOverPi))
        new == FAdd(FAdd(FAdd(Fin(omega), FMul(Fin(alpha1), shock)),
                         FMul(Fin(alpha2), shock)),
                    FMul(FAdd(Fin(beta1), Fin(beta2)), ls))
    IN  IF new.k = "fin" THEN new ELSE Fin(0)

\* omega + alpha1*(abs(z) - c) + alpha2*(abs(z) - c) + (beta1 + beta2)*log_sigma2
UpdateLogSigma2(ls, z) ==
    LET shock == FSub(FAbs(Fin(z)), Fin(SqrtTwoOverPi))
    IN  FAdd(FAdd(FAdd(Fin(omega), FMul(Fin(alpha1), shock)),
                  FMul(Fin(alpha2), shock)),
             FMul(FAdd(Fin(beta1), Fin(beta2)), ls))

\* 0.5 * y for the y that are not terms: 0, +inf and NaN stay as they are
Half(y) == y

\* r = mu - 0.5 * sigma**2 + sigma * z
Return(m, sigma, z) ==
    IF sigma.k = "sqrtexp"
      THEN [k |-> "ret", mu |-> m, e |-> sigma.v, z |-> z]
      ELSE FAdd(FSub(Fin(m), Half(Square(sigma))), FMul(sigma, Fin(z)))

\* (every return of a path is stored in the path's first column)
Cell_firstColumn(s, u) == <<s, 0>>

\* simulated_returns[sim, t]: the cell a step stores into
Cell(s, u) == <<s, u>>

\* (the generator is not advanced: the next call delivers the same value)
Advance_stuck(ps) == ps

\* np.random.standard_normal() consumes one value of the stream
Advance(ps) == ps + 1

\* One iteration of the inner loop; t is the next index range() delivers.
Step ==
    /\ pc = "step"
    /\ \E z \in Draws :
         /\ IF pos < Len(tape)
              THEN z = tape[pos + 1] /\ UNCHANGED tape
              ELSE tape' = Append(tape, z)
         /\ pos' = Advance(pos)
         /\ LET ls == UpdateLogSigma2(log_sigma2, z)
                sigma == Sqrt(Exp(ls))
                r == Return(mu, sigma, z)
                c == Cell(sim, t)
            IN  /\ log_sigma2' = ls
                /\ simulated_returns' = [simulated_returns EXCEPT ![c[1]][c[2]] = r]
                /\ writes' = [writes EXCEPT ![c[1]][c[2]] = @ + 1]
                /\ ls_written' = [ls_written EXCEPT ![sim] = Append(@, ls)]
         /\ drawn_by' = Append(drawn_by, <<sim, t>>)
    /\ t' = t + 1
    /\ IF t + 1 < forecast_period
         THEN UNCHANGED <<pc, done_paths>>
         ELSE pc' = "path" /\ done_paths' = done_paths + 1
    /\ UNCHANGED <<p, q, best_aic, best_order, tried, fit_order, model_fit,
                   n_simulations, forecast_period, path_order, sim,
                   invocation, first_result, rollVars>>

\* return simulated_returns
Return_ ==
    /\ pc = "path"
    /\ done_paths = n_simulations
    /\ pc' = "returned"
    /\ UNCHANGED <<p, q, best_aic, best_order, tried, fit_order, model_fit,
                   n_simulations, forecast_period, simulated_returns,
                   path_order, done_paths, sim, t, log_sigma2, tape, pos,
                   invocation, first_result, writes, drawn_by, ls_written,
                   rollVars>>

\* The call with the outer loop taken in any order of the paths (the source
\* takes them in the order 0, 1, 2, ...: Call).
CallPerm ==
    /\ pc = "call"
    /\ \E N \in 1..MaxSims, T \in 1..MaxPeriod :
         \E ord \in Perms(N) : Enter(N, T, ord)
    /\ invocation' = 1
    /\ UNCHANGED <<p, q, best_aic, best_order, tried, fit_order, model_fit,
                   sim, t, log_sigma2, tape, pos, first_result, rollVars>>

\* A second call with the same arguments, np.random re-seeded with the seed
\* of the first: the stream starts again at its first value.
Reinvoke ==
    /\ pc = "returned"
    /\ invocation = 1
    /\ first_result' = simulated_returns
    /\ invocation' = 2
    /\ pos' = 0
    /\ Enter(n_simulations, forecast_period, path_order)
    /\ UNCHANGED <<p, q, best_aic, best_order, tried, fit_order, model_fit,
                   sim, t, log_sigma2, tape, rollVars>>

\* ------------------------------------------------- the specifications
RollOff ==
    /\ rpc = "off"
    /\ series_len = 0
    /\ window_size = 1
    /\ step = 1
    /\ start = 0
    /\ results = <<>>

EgarchLocals ==
    /\ p = MinOrder
    /\ q = MinOrder
    /\ best_aic = PInf
    /\ best_order = None
    /\ tried = <<>>
    /\ fit_order = None
    /\ model_fit = None
    /\ n_simulations = 0
    /\ forecast_period = 0
    /\ simulated_returns = <<>>
    /\ path_order = <<>>
    /\ done_paths = 0
    /\ sim = 0
    /\ t = 0
    /\ log_sigma2 = Fin(0)
    /\ tape = <<>>
    /\ pos = 0
    /\ invocation = 0
    /\ first_result = <<>>
    /\ writes = <<>>
    /\ drawn_by = <<>>
    /\ ls_written = <<>>

\* python egarch_ibov.py: main() is about to call find_best_model
Init ==
    /\ pc = "find"
    /\ EgarchLocals
    /\ RollOff

Next ==
    \/ TryOrder
    \/ Unpack
    \/ Fit
    \/ Call
    \/ BeginPath
    \/ Step
    \/ Return_

Spec == Init /\ [][Next]_vars

NextPerm ==
    \/ TryOrder
    \/ Unpack
    \/ Fit
    \/ CallPerm
    \/ BeginPath
    \/ Step
    \/ Return_

SpecPerm == Init /\ [][NextPerm]_vars

NextReplay ==
    \/ Next
    \/ Reinvoke

SpecReplay == Init /\ [][NextReplay]_vars

\* ------------------------------- test_seasonality.py: rolling windows
\* np.var(stl.seasonal) / np.var(window), as delivered by the STL fit
Strengths == {1, 2}

\* range(0, len(series) - window_size, step) has a next value
InRange(st, len, w) == st < len - w

\* One iteration of the loop of rolling_seasonal_strength.
Window ==
    /\ rpc = "loop"
    /\ InRange(start, series_len, window_size)
    /\ \E strength \in Strengths :
         results' = Append(results, <<start, start + window_size, strength>>)
    /\ start' = start + step
    /\ UNCHANGED <<rpc, series_len, window_size, step, egarchVars>>

\* return results
RollReturn ==
    /\ rpc = "loop"
    /\ ~InRange(start, series_len, window_size)
    /\ rpc' = "returned"
    /\ UNCHANGED <<series_len, window_size, step, start, results, egarchVars>>

\* plot_all_seasonal_strengths: time_ranges[0] and time_ranges[-1] of the
\* list built from results
PlotLabels ==
    /\ rpc = "returned"
    /\ rpc' = IF Len(results) = 0 THEN "IndexError" ELSE "plotted"
    /\ UNCHANGED <<series_len, window_size, step, start, results, egarchVars>>

\* rolling_seasonal_strength(series, period, window_size, step) is entered
InitRoll ==
    /\ pc = "off"
    /\ EgarchLocals
    /\ rpc = "loop"
    /\ series_len \in 0..MaxLen
    /\ window_size \in 1..MaxWindow
    /\ step \in 1..MaxStep
    /\ start = 0
    /\ results = <<>>

NextRoll ==
    \/ Window
    \/ RollReturn
    \/ PlotLabels

SpecRoll == InitRoll /\ [][NextRoll]_vars

\* ------------------------------------------------------------ claims
Sims == 0..(n_simulations - 1)
Steps == 0..(forecast_period - 1)
InSim == pc \in {"path", "step", "returned"}
NonFinite(x) == x.k \in {"ninf", "pinf", "nan"}

\* the draw the step (s, u) consumed
DrawIndex(s, u) == CHOOSE k \in 1..Len(drawn_by) : drawn_by[k] = <<s, u>>
DrawOf(s, u) == tape[DrawIndex(s, u)]

\* the log_sigma2 in force before the j-th step (j = 1, 2, ...) of path s
LsBefore(s, j) == IF j = 1 THEN Log(Square(last_vol)) ELSE ls_written[s][j - 1]

SumSeq(f) == IF Len(f) = 0 THEN 0 ELSE IF Len(f) = 1 THEN f[1] ELSE f[1] + f[2]

\* C1: when monte_carlo_simulation returns, the matrix has n_simulations
\* rows of forecast_period columns and every cell has been stored into
\* exactly once; no cell is stored into twice at any moment of the run.
C1_ShapeAndWrites ==
    /\ InSim =>
         \A s \in DOMAIN writes : \A u \in DOMAIN writes[s] : writes[s][u] <= 1
    /\ pc = "returned" =>
         /\ n_simulations >= 1
         /\ forecast_period >= 1
         /\ DOMAIN simulated_returns = Sims
         /\ \A s \in Sims :
              /\ DOMAIN simulated_returns[s] = Steps
              /\ \A u \in Steps : writes[s][u] = 1

C1_Witness ==
    /\ pc = "returned"
    /\ n_simulations >= 2
    /\ forecast_period >= 2
    /\ \A s \in Sims : \A u \in Steps : writes[s][u] = 1

\* C2: whatever order (p, q) >= (1, 1) the model was fitted with, the
\* simulation raises no error.
C2_NoError == pc # "KeyError"

\* C3: a second call with the same arguments and the same stream of draws
\* returns the matrix the first call returned.
C3_Deterministic ==
    (pc = "returned" /\ invocation = 2) => simulated_returns = first_result

C3_Witness ==
    /\ pc = "returned"
    /\ invocation = 2
    /\ n_simulations >= 2
    /\ forecast_period >= 2
    /\ simulated_returns[0] # simulated_returns[1]
    /\ last_vol.k = "sqrtexp"

\* the log_sigma2 of a path after its step u, the path's draws being d
RECURSIVE LsAfter(_, _, _)
LsAfter(s, u, d) ==
    IF u < 0 THEN Log(Square(last_vol))
    ELSE UpdateLogSigma2(LsAfter(s, u - 1, d), d[u])

RowOf(s, d) == [u \in Steps |-> Return(mu, Sqrt(Exp(LsAfter(s, u, d))), d[u])]

\* C4: in whatever order the paths are computed, each row of the result is
\* the function of the row's own draws and of the read-only inputs.
C4_PathIndependent ==
    pc = "returned" =>
      \A s \in Sims :
        simulated_returns[s] = RowOf(s, [u \in Steps |-> DrawOf(s, u)])

C4_Witness ==
    /\ pc = "returned"
    /\ n_simulations >= 2
    /\ forecast_period >= 2
    /\ path_order # Identity(n_simulations)
    /\ last_vol.k = "sqrtexp"
    /\ simulated_returns[0] # simulated_returns[1]

\* omega + (sum of the alphas) * (|z| - sqrt(2/pi)) + (sum of the betas) * prev
ClaimedUpdate(prev, z) ==
    FAdd(FAdd(Fin(model_fit.omega),
              FMul(Fin(SumSeq(model_fit.alpha)),
                   FSub(FAbs(Fin(z)), Fin(SqrtTwoOverPi)))),
         FMul(Fin(SumSeq(model_fit.beta)), prev))

\* C5: every step sets log_sigma2 to omega + (sum of the alphas) *
\* (|z| - sqrt(2/pi)) + (sum of the betas) * (the log_sigma2 before the
\* step), z being the draw of that step.
C5_Recursion ==
    [][pc = "step" => log_sigma2' = ClaimedUpdate(log_sigma2, tape'[pos'])]_vars

C5_Witness ==
    /\ pc = "step"
    /\ t >= 1
    /\ log_sigma2.k = "fin"
    /\ log_sigma2.v # 0
    /\ model_fit.alpha[1] # model_fit.alpha[2]
    /\ model_fit.beta[1] + model_fit.beta[2] # 0

\* a step that reads a non-finite log_sigma2 writes a non-finite one and
\* raises nothing
C6_Stays ==
    (pc = "step" /\ NonFinite(log_sigma2))
      => (NonFinite(log_sigma2') /\ pc' \in {"path", "step"})

\* with ln(last_vol^2) not finite, the call still runs every step
C6_RunsAll ==
    (pc = "returned" /\ NonFinite(Log(Square(last_vol))))
      => Len(drawn_by) = n_simulations * forecast_period

\* a step that leaves log_sigma2 non-finite stores a non-finite return
C6_CellsNonFinite ==
    InSim =>
      \A s \in DOMAIN ls_written : \A j \in 1..Len(ls_written[s]) :
        NonFinite(ls_written[s][j]) => NonFinite(simulated_returns[s][j - 1])

\* C6 (as stated): once log_sigma2 is not finite, no error is raised, every
\* step still runs, log_sigma2 stays non-finite for the rest of the path and
\* the cell each such step stores is non-finite.
C6_Original == [](C6_RunsAll /\ C6_CellsNonFinite) /\ [][C6_Stays]_vars

\* a step that leaves log_sigma2 at +inf or NaN stores a non-finite return;
\* one that leaves it at -inf stores mu
C6_CellsAmended ==
    InSim =>
      \A s \in DOMAIN ls_written : \A j \in 1..Len(ls_written[s]) :
        /\ ls_written[s][j].k \in {"pinf", "nan"}
             => NonFinite(simulated_returns[s][j - 1])
        /\ ls_written[s][j].k = "ninf"
             => simulated_returns[s][j - 1] = Fin(model_fit.mu)

\* C6 (amended): once log_sigma2 is not finite, no error is raised, every
\* step still runs and log_sigma2 stays non-finite for the rest of the
\* path; the cell a step stores is non-finite when the step leaves
\* log_sigma2 at +inf or NaN, and is the finite value mu when it leaves
\* log_sigma2 at -inf (sigma = 0).
C6_Amended == [](C6_RunsAll /\ C6_CellsAmended) /\ [][C6_Stays]_vars

C6_Witness ==
    /\ pc = "returned"
    /\ last_vol = Fin(0)
    /\ forecast_period >= 2
    /\ ls_written[0][1].k = "pinf"
    /\ ls_written[0][2].k = "ninf"
    /\ NonFinite(simulated_returns[0][0])
    /\ simulated_returns[0][1] = Fin(model_fit.mu)

\* C7: a path starts from ln(last_vol^2) whatever the earlier paths did;
\* its steps run in the order 0, 1, 2, ... without another path in
\* between, and the log_sigma2 a step reads is the one the step before it
\* in the same path wrote.
C7_Lifecycle ==
    /\ pc = "step" =>
         /\ Len(ls_written[sim]) = t
         /\ log_sigma2 = LsBefore(sim, t + 1)
    /\ InSim =>
         \A k \in 1..Len(drawn_by) :
           drawn_by[k][2] =
             IF k > 1 /\ drawn_by[k - 1][1] = drawn_by[k][1]
               THEN drawn_by[k - 1][2] + 1
               ELSE 0
    /\ InSim =>
         \A j, k \in 1..Len(drawn_by) :
           j < k => drawn_by[j] # drawn_by[k]

C7_Witness ==
    /\ pc = "step"
    /\ t = 0
    /\ done_paths >= 1
    /\ Len(ls_written[path_order[1]]) >= 2
    /\ ls_written[path_order[1]][2] # log_sigma2

\* at the return: one draw per (sim, t), used by its update and its return
C8_Draws ==
    pc = "returned" =>
      /\ pos = n_simulations * forecast_period
      /\ Len(drawn_by) = n_simulations * forecast_period
      /\ Len(tape) = n_simulations * forecast_period
      /\ \A s \in Sims : \A u \in Steps :
           /\ Cardinality({k \in 1..Len(drawn_by) : drawn_by[k] = <<s, u>>}) = 1
           /\ ls_written[s][u + 1] = UpdateLogSigma2(LsBefore(s, u + 1), DrawOf(s, u))
           /\ simulated_returns[s][u] =
                Return(mu, Sqrt(Exp(ls_written[s][u + 1])), DrawOf(s, u))

\* the call leaves the fitted model as it is
C8_ReadOnly == pc \in {"call", "path", "step"} => model_fit' = model_fit

\* C8: at the return the stream has delivered n_simulations *
\* forecast_period values, one to each (sim, t); the draw of a step is the
\* z of both its log-variance update and its return; the fitted model
\* (parameters and last volatility) is not modified by the call.
C8_Entropy == []C8_Draws /\ [][C8_ReadOnly]_vars

C8_Witness ==
    /\ pc = "returned"
    /\ n_simulations >= 2
    /\ forecast_period >= 2
    /\ pos = n_simulations * forecast_period
    /\ \E j, k \in 1..Len(tape) : tape[j] # tape[k]

\* the sequence of orders the claim names
OrderSeq == <<(<<1, 1>>), (<<1, 2>>), (<<2, 1>>), (<<2, 2>>)>>

\* C9: the orders are tried in the sequence (1,1), (1,2), (2,1), (2,2), a
\* fit that raises does not end the search; the order returned is that of
\* a successful fit than which no successful fit has a smaller AIC, the
\* earliest such; None is returned exactly when no successful fit has an
\* AIC below infinity, and main then fails to unpack it.
C9_BestModel ==
    /\ \A k \in 1..Len(tried) : <<tried[k].p, tried[k].q>> = OrderSeq[k]
    /\ pc = "unpack" =>
         /\ Len(tried) = Len(OrderSeq)
         /\ (best_order = None) <=>
              ~(\E k \in 1..Len(tried) : tried[k].ok /\ FLess(tried[k].aic, PInf))
         /\ best_order # None =>
              \E k \in 1..Len(tried) :
                /\ tried[k].ok
                /\ best_order = OrderSeq[k]
                /\ \A j \in 1..Len(tried) :
                     tried[j].ok => ~FLess(tried[j].aic, tried[k].aic)
                /\ \A j \in 1..(k - 1) :
                     tried[j].ok => tried[j].aic # tried[k].aic
    /\ pc = "TypeError" => best_order = None
    /\ pc \in {"fit", "call", "path", "step", "returned", "KeyError"} =>
         (best_order # None /\ fit_order = best_order)

C9_Witness ==
    /\ pc = "unpack"
    /\ ~tried[1].ok
    /\ tried[2].ok /\ tried[3].ok /\ tried[4].ok
    /\ tried[2].aic = Fin(2)
    /\ tried[3].aic = Fin(1)
    /\ tried[4].aic = Fin(1)
    /\ best_order = <<2, 1>>

\* C10: rolling_seasonal_strength returns the windows that start at 0,
\* step, 2*step, ..., each of window_size points inside the series, and
\* every such window, the one ending at the end of the series included; the
\* list is not empty when the series has window_size points, so that
\* plot_all_seasonal_strengths can index its first and last element.
C10_AllWindows ==
    /\ rpc \in {"returned", "plotted", "IndexError"} =>
         /\ \A k \in 1..Len(results) :
              /\ results[k][1] = (k - 1) * step
              /\ results[k][2] - results[k][1] = window_size
              /\ results[k][2] <= series_len
         /\ \A m \in 0..series_len :
              (m * step + window_size <= series_len)
                => \E k \in 1..Len(results) : results[k][1] = m * step
         /\ series_len >= window_size => Len(results) > 0
    /\ rpc = "IndexError" => series_len < window_size

====
